---- MODULE Spec2Model ----
(***************************************************************************)
(* Login and renewal of the CF auth backend (path_login.go).               *)
(*                                                                         *)
(* Strings that the code takes apart (remote addresses, IP addresses) are  *)
(* sequences of one-character strings; an IP address is written with one   *)
(* digit, so "5/3" stands for an address with a subnet suffix.             *)
(* Every other string (an identifier, a role name) is a sequence of one    *)
(* token, and the empty string is the empty sequence.  Pointers are        *)
(* records with a nil field.                                               *)
(***************************************************************************)
EXTENDS Integers, Sequences, FiniteSets, TLC

VARIABLES
    now,              \* wall clock, in seconds
    roles,            \* storage: role name -> RoleEntry
    config,           \* storage: the configuration, or NilConfig
    mu,               \* b.mu: [readers, writer]
    cfClient,         \* b.cfClient: "nil" or "client"
    cfClientTainted,  \* b.cfClientTainted
    req               \* one record per request in flight

vars == <<now, roles, config, mu, cfClient, cfClientTainted, req>>

(* ------------------------------ bounds -------------------------------- *)

\* largest tolerance, in seconds, a stored configuration holds
MaxTol == 1
\* number of seconds the clock advances in a behaviour
MaxTicks == 1

\* the longest bound list and the longest remote address the pure functions
\* are applied to
MaxList == 2
MaxAddrLen == 3

ClockStart == MaxTol + 1
MaxClock == ClockStart + MaxTicks
SigTimes == 0..(MaxClock + MaxTol + 1)

Reqs == {"p", "q"}
NoReq == "none"

(* ------------------------------ strings ------------------------------- *)

Digits == <<"0", "1", "2", "3", "4", "5", "6", "7", "8", "9">>

Str(c) == <<c>>
EmptyStr == <<>>

\* the index of the first "/" in s, or Len(s) + 1
RECURSIVE FirstSlash(_, _)
FirstSlash(s, i) ==
    IF i > Len(s) THEN i
    ELSE IF s[i] = "/" THEN i
    ELSE FirstSlash(s, i + 1)

\* strings.Split(s, "/")[0]
SplitFirst(s) == SubSeq(s, 1, FirstSlash(s, 1) - 1)

\* net.ParseIP: the address, or NilIP when the text is no address
NilIP == [nil |-> TRUE]
ParseIP(s) ==
    IF Len(s) = 1 /\ \E d \in 1..Len(Digits) : Digits[d] = s[1]
    THEN [nil |-> FALSE, addr |-> (CHOOSE d \in 1..Len(Digits) : Digits[d] = s[1]) - 1]
    ELSE NilIP

\* net.IP.Equal compares the byte slices: two nil addresses are equal
IPEqual(a, b) == a = b

(* --------------------------- constraint matcher ------------------------ *)

SeqToSet(s) == {s[i] : i \in 1..Len(s)}

\* meetsBoundConstraints with strings.HasPrefix in place of ==
meetsBoundConstraintsMut(certValue, constraints) ==
    IF Len(constraints) = 0 THEN TRUE
    ELSE \E i \in 1..Len(constraints) :
            /\ Len(certValue) <= Len(constraints[i])
            /\ SubSeq(constraints[i], 1, Len(certValue)) = certValue

meetsBoundConstraints(certValue, constraints) ==
    IF Len(constraints) = 0 THEN TRUE
    ELSE certValue \in SeqToSet(constraints)

\* matchesIPAddress parsing the remote address as it came, without line 428
matchesIPAddressMut(remoteAddr, certIP) ==
    LET reqIPAddr == ParseIP(remoteAddr)
    IN  IF IPEqual(certIP, reqIPAddr) THEN TRUE ELSE FALSE

\* lines 424-435
matchesIPAddress(remoteAddr, certIP) ==
    LET reqIPAddr == ParseIP(SplitFirst(remoteAddr))
    IN  IF IPEqual(certIP, reqIPAddr) THEN TRUE ELSE FALSE

\* cidrutil.RemoteAddrIsOk: the remote address parses and some bound CIDR
\* block holds it. A block is [base, size]: the addresses base..base+size-1.
RemoteAddrIsOk(remoteAddr, boundCIDRs) ==
    LET ip == ParseIP(SplitFirst(remoteAddr))
    IN  IF Len(boundCIDRs) = 0 THEN TRUE
        ELSE IF ip.nil THEN FALSE
        ELSE \E i \in 1..Len(boundCIDRs) :
                /\ boundCIDRs[i].base <= ip.addr
                /\ ip.addr < boundCIDRs[i].base + boundCIDRs[i].size

(* ------------------------------- storage ------------------------------- *)

NilRole == [nil |-> TRUE]
NilConfig == [nil |-> TRUE]

\* a role bound to the addresses 4..7 and to application a1, IP matching off
WebRole ==
    [nil |-> FALSE,
     TokenBoundCIDRs |-> <<[base |-> 4, size |-> 4]>>,
     DisableIPMatching |-> TRUE,
     BoundInstanceIDs |-> <<>>,
     BoundAppIDs |-> <<Str("a1")>>,
     BoundOrgIDs |-> <<>>,
     BoundSpaceIDs |-> <<>>,
     TokenTTL |-> 60, TokenMaxTTL |-> 120, TokenPeriod |-> 0]

\* a role with no bound CIDRs, IP matching on, bound to two organizations
BatchRole ==
    [nil |-> FALSE,
     TokenBoundCIDRs |-> <<>>,
     DisableIPMatching |-> FALSE,
     BoundInstanceIDs |-> <<>>,
     BoundAppIDs |-> <<>>,
     BoundOrgIDs |-> <<Str("o1"), Str("o2")>>,
     BoundSpaceIDs |-> <<>>,
     TokenTTL |-> 30, TokenMaxTTL |-> 90, TokenPeriod |-> 10]

StoredRoles == (Str("web") :> WebRole) @@ (Str("batch") :> BatchRole)

\* the role names a request may carry: two stored, one unknown, one empty
RoleNames == {EmptyStr, Str("web"), Str("batch"), Str("ghost")}

\* getRole: the stored entry, or nil without error when there is none
getRole(storage, roleName) ==
    IF roleName \in DOMAIN storage THEN storage[roleName] ELSE NilRole

TrustedCAs == {"ca1"}

Configs ==
    {[nil |-> FALSE, LoginMaxSecNotBefore |-> b, LoginMaxSecNotAfter |-> a,
      IdentityCACertificates |-> TrustedCAs] : b \in 0..MaxTol, a \in 0..MaxTol}

(* ---------------------- request fields and crypto ---------------------- *)

NilConn == [nil |-> TRUE]
Conn(addr) == [nil |-> FALSE, RemoteAddr |-> addr]

RemoteAddrs == {Str("5"), <<"5", "/", "3">>, Str("2"), Str("x")}
Conns == {NilConn} \cup {Conn(a) : a \in RemoteAddrs}

\* the cf_instance_cert field: the PEM bundle with what its identity
\* certificate holds, or the empty string
EmptyBundle == [empty |-> TRUE]
Bundle(pem, issuer, key, cn, app, org, space, ip) ==
    [empty |-> FALSE, pem_ok |-> pem, issuer |-> issuer, key |-> key,
     cn |-> cn, app |-> app, org |-> org, space |-> space, ip |-> ip]

GoodBundle  == Bundle(TRUE, "ca1", "k1", Str("i1"), Str("a1"), Str("o1"), Str("s1"), Str("5"))
OtherBundle == Bundle(TRUE, "ca1", "k2", Str("i2"), Str("a2"), Str("o2"), Str("s2"), Str("2"))
RogueBundle == Bundle(TRUE, "evil", "k3", Str("i1"), Str("a1"), Str("o1"), Str("s1"), Str("5"))
BlankBundle == Bundle(TRUE, "ca1", "k4", EmptyStr, Str("a1"), Str("o1"), Str("s1"), Str("5"))
BrokenBundle == Bundle(FALSE, "ca1", "k1", Str("i1"), Str("a1"), Str("o1"), Str("s1"), Str("5"))

Bundles == {EmptyBundle, GoodBundle, OtherBundle, RogueBundle, BlankBundle, BrokenBundle}

\* the signing_time field as sent: empty, in one of the two accepted
\* formats, or text that is neither
RawTimes ==
    {[format |-> "empty", sec |-> 0], [format |-> "junk", sec |-> 0],
     [format |-> "bash", sec |-> ClockStart]}
    \cup {[format |-> "iso", sec |-> t] : t \in SigTimes}

\* parseTime: signatures.TimeFormat first, then util.BashTimeFormat
parseTime(signingTime) ==
    IF signingTime.format = "iso" THEN [err |-> FALSE, t |-> signingTime.sec]
    ELSE IF signingTime.format = "bash" THEN [err |-> FALSE, t |-> signingTime.sec]
    ELSE [err |-> TRUE, t |-> 0]

\* the signature field: empty, or what was signed and with which key
EmptySig == [empty |-> TRUE]
Sig(key, t, role, bundle) ==
    [empty |-> FALSE, key |-> key, time |-> t, role |-> role, cert |-> bundle]

\* the signatures a caller may send with a request for (t, role, bundle):
\* none, the honest one, one made for another role, one made with another key
SigsFor(t, role, bundle) ==
    {EmptySig} \cup
    (IF bundle.empty THEN {}
     ELSE {Sig(bundle.key, t, role, bundle),
           Sig(bundle.key, t, Str("other"), bundle),
           Sig("k9", t, role, bundle)})

\* util.ExtractCertificates
ExtractCertificates(contents) == [err |-> ~contents.pem_ok]

\* signatures.Verify: the signature is over exactly (signing time, role,
\* certificate bundle) and made with the identity certificate's key
Verify(signature, data) ==
    [err |-> ~(/\ signature.key = data.CFInstanceCertContents.key
               /\ signature.time = data.SigningTime
               /\ signature.role = data.Role
               /\ signature.cert = data.CFInstanceCertContents),
     signingCert |-> data.CFInstanceCertContents]

\* util.Validate: the chain ends in one of the configured CA certificates
Validate(caCerts, signingCert) == [err |-> signingCert.issuer \notin caCerts]

\* models.NewCFCertificateFromx509: the five identity fields, each required
NewCFCertificateFromx509(cert) ==
    IF \/ cert.cn = EmptyStr \/ cert.app = EmptyStr \/ cert.org = EmptyStr
       \/ cert.space = EmptyStr \/ ParseIP(cert.ip).nil
    THEN [err |-> TRUE]
    ELSE [err |-> FALSE, InstanceID |-> cert.cn, AppID |-> cert.app,
          OrgID |-> cert.org, SpaceID |-> cert.space, IPAddress |-> cert.ip]

\* models.NewCFCertificate, whose error pathLoginRenew drops
NewCFCertificate(instanceID, orgID, spaceID, appID, ipAddr) ==
    [err |-> FALSE, InstanceID |-> instanceID, AppID |-> appID,
     OrgID |-> orgID, SpaceID |-> spaceID, IPAddress |-> ipAddr]

(* ------------------------------ getOrErr ------------------------------- *)

\* a map[string]interface{} holds values [isString, s]; a map[string]string
\* holds strings
IfcMap(m) == [kind |-> "ifc", m |-> m]
StrMap(m) == [kind |-> "str", m |-> m]
StrVal(s) == [isString |-> TRUE, s |-> s]
IntVal == [isString |-> FALSE, s |-> EmptyStr]

\* getOrErr reading a map[string]string without the ok check
getOrErrMut(fieldName, from) ==
    IF from.kind = "ifc" THEN
        IF fieldName \notin DOMAIN from.m
        THEN [err |-> TRUE, v |-> EmptyStr, msg |-> "unable to retrieve during renewal"]
        ELSE LET vIfc == from.m[fieldName]
                 v == IF vIfc.isString THEN vIfc.s ELSE EmptyStr
             IN  IF v = EmptyStr
                 THEN [err |-> TRUE, v |-> EmptyStr,
                       msg |-> "unable to retrieve during renewal, not a string"]
                 ELSE [err |-> FALSE, v |-> v, msg |-> ""]
    ELSE [err |-> FALSE,
          v |-> IF fieldName \in DOMAIN from.m THEN from.m[fieldName] ELSE EmptyStr,
          msg |-> ""]

getOrErr(fieldName, from) ==
    IF from.kind = "ifc" THEN
        IF fieldName \notin DOMAIN from.m
        THEN [err |-> TRUE, v |-> EmptyStr, msg |-> "unable to retrieve during renewal"]
        ELSE LET vIfc == from.m[fieldName]
                 v == IF vIfc.isString THEN vIfc.s ELSE EmptyStr
             IN  IF v = EmptyStr
                 THEN [err |-> TRUE, v |-> EmptyStr,
                       msg |-> "unable to retrieve during renewal, not a string"]
                 ELSE [err |-> FALSE, v |-> v, msg |-> ""]
    ELSE IF from.kind = "str" THEN
        IF fieldName \notin DOMAIN from.m
        THEN [err |-> TRUE, v |-> EmptyStr, msg |-> "unable to retrieve during renewal"]
        ELSE [err |-> FALSE, v |-> from.m[fieldName], msg |-> ""]
    ELSE [err |-> TRUE, v |-> EmptyStr, msg |-> "unrecognized type for structure"]

(* ---------------------------- platform API ----------------------------- *)

\* what the platform may answer to a lookup: an error, or a record
ApiErr == [err |-> TRUE]
NotCalled == [err |-> TRUE, skipped |-> TRUE]

AppResps ==
    {ApiErr} \cup
    {[err |-> FALSE, Guid |-> g, SpaceGuid |-> s, Instances |-> n, Name |-> Str("app-name")] :
        g \in {Str("a1"), Str("a2")}, s \in {Str("s1"), Str("s2")}, n \in {0, 1}}

OrgResps ==
    {ApiErr} \cup
    {[err |-> FALSE, Guid |-> g, Name |-> Str("org-name")] : g \in {Str("o1"), Str("o2")}}

SpaceResps ==
    {ApiErr} \cup
    {[err |-> FALSE, Guid |-> g, OrganizationGuid |-> o, Name |-> Str("space-name")] :
        g \in {Str("s1"), Str("s2")}, o \in {Str("o1"), Str("o2")}}

ApiAnswers == [app : AppResps, org : OrgResps, space : SpaceResps]

(* ------------------------------ validate ------------------------------- *)

Failed(msg, calls) == [err |-> TRUE, msg |-> msg, calls |-> calls]

\* validate taking an application without instances for a live one
validateNoInstancesMut(api, role, cfCert, reqConnRemoteAddr) ==
    IF ~role.DisableIPMatching
       /\ ~matchesIPAddress(reqConnRemoteAddr, ParseIP(cfCert.IPAddress))
    THEN Failed("no matching IP address", <<>>)
    ELSE IF ~meetsBoundConstraints(cfCert.InstanceID, role.BoundInstanceIDs)
    THEN Failed("instance ID doesn't match role constraints", <<>>)
    ELSE IF ~meetsBoundConstraints(cfCert.AppID, role.BoundAppIDs)
    THEN Failed("app ID doesn't match role constraints", <<>>)
    ELSE IF ~meetsBoundConstraints(cfCert.OrgID, role.BoundOrgIDs)
    THEN Failed("org ID doesn't match role constraints", <<>>)
    ELSE IF ~meetsBoundConstraints(cfCert.SpaceID, role.BoundSpaceIDs)
    THEN Failed("space ID doesn't match role constraints", <<>>)
    ELSE IF api.app.err
    THEN Failed("app lookup failed", <<"app">>)
    ELSE IF api.app.Guid # cfCert.AppID
    THEN Failed("cert app ID doesn't match API's expected one", <<"app">>)
    ELSE IF api.app.SpaceGuid # cfCert.SpaceID
    THEN Failed("cert space ID doesn't match API's expected one", <<"app">>)
    ELSE IF api.app.Instances < 0
    THEN Failed("app doesn't have any live instances", <<"app">>)
    ELSE IF api.org.err
    THEN Failed("org lookup failed", <<"app", "org">>)
    ELSE IF api.org.Guid # cfCert.OrgID
    THEN Failed("cert org ID doesn't match API's expected one", <<"app", "org">>)
    ELSE IF api.space.err
    THEN Failed("space lookup failed", <<"app", "org", "space">>)
    ELSE IF api.space.Guid # cfCert.SpaceID
    THEN Failed("cert space ID doesn't match API's expected one", <<"app", "org", "space">>)
    ELSE IF api.space.OrganizationGuid # cfCert.OrgID
    THEN Failed("cert org ID doesn't match API's expected one", <<"app", "org", "space">>)
    ELSE [err |-> FALSE, msg |-> "", calls |-> <<"app", "org", "space">>]

\* validate looking the application up before the space ID is checked
\* against the role
validateLookupFirstMut(api, role, cfCert, reqConnRemoteAddr) ==
    IF ~role.DisableIPMatching
       /\ ~matchesIPAddress(reqConnRemoteAddr, ParseIP(cfCert.IPAddress))
    THEN Failed("no matching IP address", <<>>)
    ELSE IF ~meetsBoundConstraints(cfCert.InstanceID, role.BoundInstanceIDs)
    THEN Failed("instance ID doesn't match role constraints", <<>>)
    ELSE IF ~meetsBoundConstraints(cfCert.AppID, role.BoundAppIDs)
    THEN Failed("app ID doesn't match role constraints", <<>>)
    ELSE IF ~meetsBoundConstraints(cfCert.OrgID, role.BoundOrgIDs)
    THEN Failed("org ID doesn't match role constraints", <<>>)
    ELSE IF api.app.err
    THEN Failed("app lookup failed", <<"app">>)
    ELSE IF ~meetsBoundConstraints(cfCert.SpaceID, role.BoundSpaceIDs)
    THEN Failed("space ID doesn't match role constraints", <<"app">>)
    ELSE IF api.app.Guid # cfCert.AppID
    THEN Failed("cert app ID doesn't match API's expected one", <<"app">>)
    ELSE IF api.app.SpaceGuid # cfCert.SpaceID
    THEN Failed("cert space ID doesn't match API's expected one", <<"app">>)
    ELSE IF api.app.Instances <= 0
    THEN Failed("app doesn't have any live instances", <<"app">>)
    ELSE IF api.org.err
    THEN Failed("org lookup failed", <<"app", "org">>)
    ELSE IF api.org.Guid # cfCert.OrgID
    THEN Failed("cert org ID doesn't match API's expected one", <<"app", "org">>)
    ELSE IF api.space.err
    THEN Failed("space lookup failed", <<"app", "org", "space">>)
    ELSE IF api.space.Guid # cfCert.SpaceID
    THEN Failed("cert space ID doesn't match API's expected one", <<"app", "org", "space">>)
    ELSE IF api.space.OrganizationGuid # cfCert.OrgID
    THEN Failed("cert org ID doesn't match API's expected one", <<"app", "org", "space">>)
    ELSE [err |-> FALSE, msg |-> "", calls |-> <<"app", "org", "space">>]

\* validate: the local checks, then the three lookups; calls lists the
\* lookups issued, in order.  api holds the platform's answers.
validate(api, role, cfCert, reqConnRemoteAddr) ==
    IF ~role.DisableIPMatching
       /\ ~matchesIPAddress(reqConnRemoteAddr, ParseIP(cfCert.IPAddress))
    THEN Failed("no matching IP address", <<>>)
    ELSE IF ~meetsBoundConstraints(cfCert.InstanceID, role.BoundInstanceIDs)
    THEN Failed("instance ID doesn't match role constraints", <<>>)
    ELSE IF ~meetsBoundConstraints(cfCert.AppID, role.BoundAppIDs)
    THEN Failed("app ID doesn't match role constraints", <<>>)
    ELSE IF ~meetsBoundConstraints(cfCert.OrgID, role.BoundOrgIDs)
    THEN Failed("org ID doesn't match role constraints", <<>>)
    ELSE IF ~meetsBoundConstraints(cfCert.SpaceID, role.BoundSpaceIDs)
    THEN Failed("space ID doesn't match role constraints", <<>>)
    ELSE IF api.app.err
    THEN Failed("app lookup failed", <<"app">>)
    ELSE IF api.app.Guid # cfCert.AppID
    THEN Failed("cert app ID doesn't match API's expected one", <<"app">>)
    ELSE IF api.app.SpaceGuid # cfCert.SpaceID
    THEN Failed("cert space ID doesn't match API's expected one", <<"app">>)
    ELSE IF api.app.Instances <= 0
    THEN Failed("app doesn't have any live instances", <<"app">>)
    ELSE IF api.org.err
    THEN Failed("org lookup failed", <<"app", "org">>)
    ELSE IF api.org.Guid # cfCert.OrgID
    THEN Failed("cert org ID doesn't match API's expected one", <<"app", "org">>)
    ELSE IF api.space.err
    THEN Failed("space lookup failed", <<"app", "org", "space">>)
    ELSE IF api.space.Guid # cfCert.SpaceID
    THEN Failed("cert space ID doesn't match API's expected one", <<"app", "org", "space">>)
    ELSE IF api.space.OrganizationGuid # cfCert.OrgID
    THEN Failed("cert org ID doesn't match API's expected one", <<"app", "org", "space">>)
    ELSE [err |-> FALSE, msg |-> "", calls |-> <<"app", "org", "space">>]

\* the answers validate received: a lookup it did not issue has none
Seen(api, calls) ==
    [app   |-> IF "app" \in SeqToSet(calls) THEN api.app ELSE NotCalled,
     org   |-> IF "org" \in SeqToSet(calls) THEN api.org ELSE NotCalled,
     space |-> IF "space" \in SeqToSet(calls) THEN api.space ELSE NotCalled]

getOrgName(api) ==
    IF api.org.err THEN [err |-> TRUE, name |-> EmptyStr]
    ELSE [err |-> FALSE, name |-> api.org.Name]

getAppName(api) ==
    IF api.app.err THEN [err |-> TRUE, name |-> EmptyStr]
    ELSE [err |-> FALSE, name |-> api.app.Name]

getSpaceName(api) ==
    IF api.space.err THEN [err |-> TRUE, name |-> EmptyStr]
    ELSE [err |-> FALSE, name |-> api.space.Name]

(* ------------------------- operationLoginUpdate ------------------------ *)

Unread == [unread |-> TRUE]
NilCert == [err |-> TRUE]
NilAuth == [nil |-> TRUE]
NoTime == -1

\* a handler's return value: "rejection" is logical.ErrorResponse with a nil
\* error, "error" a nil response with an error, "denied" a nil response with
\* logical.ErrPermissionDenied, "auth" a response carrying an Auth, "panic" a
\* nil dereference
NoResult == [kind |-> "none", msg |-> ""]
Res(kind, msg) == [kind |-> kind, msg |-> msg]

Step(res, stage, trace, t, cfCert) ==
    [res |-> res, stage |-> stage, trace |-> trace, t |-> t, cfCert |-> cfCert]

\* cidrDenied letting a request without a connection through
cidrDeniedMut(role, conn) ==
    /\ Len(role.TokenBoundCIDRs) > 0
    /\ ~conn.nil
    /\ ~RemoteAddrIsOk(conn.RemoteAddr, role.TokenBoundCIDRs)

\* lines 122-130: a role with bound CIDRs needs a connection whose remote
\* address one of them holds
cidrDenied(role, conn) ==
    /\ Len(role.TokenBoundCIDRs) > 0
    /\ \/ conn.nil
       \/ ~RemoteAddrIsOk(conn.RemoteAddr, role.TokenBoundCIDRs)

\* lines 162 and 164: signingTime.Before(oldestAllowableSigningTime)
tooOldMut(signingTime, timeReceived, cfg) ==
    signingTime <= timeReceived - cfg.LoginMaxSecNotBefore
tooOld(signingTime, timeReceived, cfg) ==
    LET oldestAllowableSigningTime == timeReceived - cfg.LoginMaxSecNotBefore
    IN  signingTime < oldestAllowableSigningTime

\* lines 163 and 167: signingTime.After(furthestFutureAllowableSigningTime)
tooFarInFuture(signingTime, timeReceived, cfg) ==
    LET furthestFutureAllowableSigningTime == timeReceived + cfg.LoginMaxSecNotAfter
    IN  signingTime > furthestFutureAllowableSigningTime

\* LoginLockedChecks without the chain validation of line 188
LoginLockedChecksMut(roleName, signature, cfInstanceCertContents, signingTime, cfgRes, timeReceived, pre) ==
    IF cfgRes.err \/ cfgRes.config.nil
    THEN Step(Res("error", "storage"), "config", pre \o <<"rlock">>, signingTime, NilCert)
    ELSE LET cfg == cfgRes.config
             locked == pre \o <<"rlock", "config">>
             verified == Verify(signature,
                                [SigningTime |-> signingTime, Role |-> roleName,
                                 CFInstanceCertContents |-> cfInstanceCertContents])
             cfCert == NewCFCertificateFromx509(verified.signingCert)
         IN
    IF tooOld(signingTime, timeReceived, cfg) \/ tooFarInFuture(signingTime, timeReceived, cfg)
    THEN Step(Res("rejection", "request is too old"), "window", locked, signingTime, NilCert)
    ELSE IF ExtractCertificates(cfInstanceCertContents).err
    THEN Step(Res("rejection", "extract"), "extract", locked \o <<"window">>,
              signingTime, NilCert)
    ELSE IF verified.err
    THEN Step(Res("rejection", "verify"), "verify", locked \o <<"window", "extract">>,
              signingTime, NilCert)
    ELSE IF cfCert.err
    THEN Step(Res("error", "certificate"), "derive",
              locked \o <<"window", "extract", "verify">>, signingTime, NilCert)
    ELSE Step(NoResult, "continue",
              locked \o <<"window", "extract", "verify", "derive">>, signingTime, cfCert)

\* Lines 151-203 of operationLoginUpdate, under the reader lock: the first
\* failing check decides.  cfgRes is what storage answers; the trace lists
\* what passed, after pre.
LoginLockedChecks(roleName, signature, cfInstanceCertContents, signingTime, cfgRes, timeReceived, pre) ==
    IF cfgRes.err
    THEN Step(Res("error", "storage"), "config", pre \o <<"rlock">>, signingTime, NilCert)
    ELSE IF cfgRes.config.nil
    THEN Step(Res("error", "no CA is configured for verifying client certificates"),
              "config", pre \o <<"rlock">>, signingTime, NilCert)
    ELSE LET cfg == cfgRes.config
             locked == pre \o <<"rlock", "config">>
         IN
    IF tooOld(signingTime, timeReceived, cfg)
    THEN Step(Res("rejection", "request is too old"), "window", locked, signingTime, NilCert)
    ELSE IF tooFarInFuture(signingTime, timeReceived, cfg)
    THEN Step(Res("rejection", "request is too far in the future"), "window", locked,
              signingTime, NilCert)
    ELSE IF ExtractCertificates(cfInstanceCertContents).err
    THEN Step(Res("rejection", "extract"), "extract", locked \o <<"window">>,
              signingTime, NilCert)
    ELSE LET verified == Verify(signature,
                                [SigningTime |-> signingTime, Role |-> roleName,
                                 CFInstanceCertContents |-> cfInstanceCertContents])
         IN
    IF verified.err
    THEN Step(Res("rejection", "verify"), "verify", locked \o <<"window", "extract">>,
              signingTime, NilCert)
    ELSE IF Validate(cfg.IdentityCACertificates, verified.signingCert).err
    THEN Step(Res("rejection", "chain"), "chain",
              locked \o <<"window", "extract", "verify">>, signingTime, NilCert)
    ELSE LET cfCert == NewCFCertificateFromx509(verified.signingCert)
         IN
    IF cfCert.err
    THEN Step(Res("error", "certificate"), "derive",
              locked \o <<"window", "extract", "verify", "chain">>, signingTime, NilCert)
    ELSE Step(NoResult, "continue",
              locked \o <<"window", "extract", "verify", "chain", "derive">>,
              signingTime, cfCert)

\* LoginChecks with the bound-CIDR check made after the three fields are
\* read and the signing time parsed
LoginChecksFieldsFirstMut(roleName, roleRes, conn, signature, cfInstanceCertContents, signingTimeRaw, cfgRes, timeReceived) ==
    IF roleName = EmptyStr
    THEN Step(Res("rejection", "'role-name' is required"), "role", <<>>, NoTime, NilCert)
    ELSE IF roleRes.err
    THEN Step(Res("error", "storage"), "getRole", <<>>, NoTime, NilCert)
    ELSE IF roleRes.role.nil
    THEN Step(Res("error", "no matching role"), "getRole", <<>>, NoTime, NilCert)
    ELSE IF signature.empty
    THEN Step(Res("rejection", "'signature' is required"), "signature",
              <<"role", "cidr">>, NoTime, NilCert)
    ELSE IF cfInstanceCertContents.empty
    THEN Step(Res("rejection", "'cf_instance_cert' is required"), "cf_instance_cert",
              <<"role", "cidr", "signature">>, NoTime, NilCert)
    ELSE IF signingTimeRaw.format = "empty"
    THEN Step(Res("rejection", "'signing_time' is required"), "signing_time",
              <<"role", "cidr", "signature", "cf_instance_cert">>, NoTime, NilCert)
    ELSE LET parsed == parseTime(signingTimeRaw)
             pre == <<"role", "cidr", "signature", "cf_instance_cert", "signing_time">>
         IN
    IF parsed.err
    THEN Step(Res("rejection", "couldn't parse"), "parse", pre, NoTime, NilCert)
    ELSE IF cidrDenied(roleRes.role, conn)
    THEN Step(Res("denied", "permission denied"), "cidr", pre, NoTime, NilCert)
    ELSE LoginLockedChecks(roleName, signature, cfInstanceCertContents, parsed.t,
                           cfgRes, timeReceived, pre \o <<"parse">>)

\* Lines 108-203 of operationLoginUpdate: the checks before the lock, then
\* those under it.  roleRes is what storage answers.
LoginChecks(roleName, roleRes, conn, signature, cfInstanceCertContents, signingTimeRaw, cfgRes, timeReceived) ==
    IF roleName = EmptyStr
    THEN Step(Res("rejection", "'role-name' is required"), "role", <<>>, NoTime, NilCert)
    ELSE IF roleRes.err
    THEN Step(Res("error", "storage"), "getRole", <<>>, NoTime, NilCert)
    ELSE IF roleRes.role.nil
    THEN Step(Res("error", "no matching role"), "getRole", <<>>, NoTime, NilCert)
    ELSE IF cidrDenied(roleRes.role, conn)
    THEN Step(Res("denied", "permission denied"), "cidr", <<"role">>, NoTime, NilCert)
    ELSE IF signature.empty
    THEN Step(Res("rejection", "'signature' is required"), "signature",
              <<"role", "cidr">>, NoTime, NilCert)
    ELSE IF cfInstanceCertContents.empty
    THEN Step(Res("rejection", "'cf_instance_cert' is required"), "cf_instance_cert",
              <<"role", "cidr", "signature">>, NoTime, NilCert)
    ELSE IF signingTimeRaw.format = "empty"
    THEN Step(Res("rejection", "'signing_time' is required"), "signing_time",
              <<"role", "cidr", "signature", "cf_instance_cert">>, NoTime, NilCert)
    ELSE LET parsed == parseTime(signingTimeRaw)
             pre == <<"role", "cidr", "signature", "cf_instance_cert", "signing_time">>
         IN
    IF parsed.err
    THEN Step(Res("rejection", "couldn't parse"), "parse", pre, NoTime, NilCert)
    ELSE LoginLockedChecks(roleName, signature, cfInstanceCertContents, parsed.t,
                           cfgRes, timeReceived, pre \o <<"parse">>)

(* ------------------------------ requests ------------------------------- *)

\* what a request holds: its position, the locals of its handler, and a
\* record of what it read (in), what passed (trace) and what it returned
IdleReq ==
    [pc |-> "idle", kind |-> "none", timeReceived |-> NoTime,
     in |-> Unread, roleName |-> EmptyStr, role |-> NilRole, cfg |-> NilConfig,
     signingTime |-> NoTime, cfCert |-> NilCert, clientErr |-> FALSE,
     trace |-> <<>>, seen |-> Unread, names |-> Unread, verr |-> Unread,
     stage |-> "", result |-> NoResult, auth |-> NilAuth, taintAtReturn |-> FALSE]

Free(r) == req[r].pc = "idle"

Put(r, rec) == req' = [req EXCEPT ![r] = rec]

Done(rec, res, stage) ==
    [rec EXCEPT !.pc = "done", !.result = res, !.stage = stage,
                !.taintAtReturn = cfClientTainted]

RLock(r) == mu.writer = NoReq /\ mu' = [mu EXCEPT !.readers = @ \cup {r}]
RUnlock(r) == mu' = [mu EXCEPT !.readers = @ \ {r}]

\* the fields of a login request the handler read before it returned at
\* stage: the connection is read at the CIDR check only for a role with
\* bound CIDRs, the signing time once it is parsed
LoginRead(stage, trace, roleName, role, conn, raw) ==
    [role |-> roleName,
     conn |-> IF "role" \in SeqToSet(trace) /\ Len(role.TokenBoundCIDRs) > 0
              THEN conn ELSE Unread,
     format |-> IF "signing_time" \in SeqToSet(trace) THEN raw.format ELSE "",
     full |-> FALSE]

\* line 106
LoginEntry(r) ==
    /\ Free(r)
    /\ Put(r, [IdleReq EXCEPT !.pc = "l_start", !.kind = "login", !.timeReceived = now])
    /\ UNCHANGED <<now, roles, config, mu, cfClient, cfClientTainted>>

\* lines 108-203: a return before line 151 needs no lock; past it the reader
\* lock is taken, and released by the deferred RUnlock on return
LoginVerify(r, D) ==
    /\ req[r].pc = "l_start"
    /\ \E roleName \in D.roleNames, roleErr \in D.errs, conn \in D.conns,
          bundle \in D.bundles, raw \in D.raws, cfgErr \in D.errs :
       \E sig \in {x \in SigsFor(parseTime(raw).t, roleName, bundle) :
                      D.forgeries \/ x.empty \/ (x.key = bundle.key /\ x.role = roleName)} :
         LET rec == req[r]
             roleRes == [err |-> roleErr, role |-> getRole(roles, roleName)]
             cfgRes == [err |-> cfgErr, config |-> config]
             out == LoginChecks(roleName, roleRes, conn, sig, bundle, raw, cfgRes,
                                rec.timeReceived)
             locked == "rlock" \in SeqToSet(out.trace)
             base == [rec EXCEPT !.roleName = roleName,
                                 !.role = IF "role" \in SeqToSet(out.trace)
                                          THEN roleRes.role ELSE NilRole,
                                 !.cfg = IF "config" \in SeqToSet(out.trace)
                                         THEN config ELSE NilConfig,
                                 !.signingTime = out.t,
                                 !.trace = out.trace]
         IN  /\ locked => mu.writer = NoReq
             /\ IF out.stage = "continue"
                THEN /\ RLock(r)
                     /\ Put(r, [base EXCEPT !.pc = "client", !.cfCert = out.cfCert,
                                   !.in = [role |-> roleName, conn |-> conn,
                                           format |-> raw.format, full |-> TRUE,
                                           signature |-> sig, bundle |-> bundle]])
                ELSE /\ Put(r, Done([base EXCEPT !.in =
                                        LoginRead(out.stage, out.trace, roleName,
                                                  roleRes.role, conn, raw)],
                                    out.res, out.stage))
                     /\ UNCHANGED mu
    /\ UNCHANGED <<now, roles, config, cfClient, cfClientTainted>>

(* ------------------------- getCFClientOrRefresh ------------------------ *)

Usable == cfClient # "nil" /\ ~cfClientTainted

\* the cached client is there and not tainted: it is returned
GetClientCached(r) ==
    /\ req[r].pc = "client"
    /\ Usable
    /\ Put(r, [req[r] EXCEPT !.pc = "validate", !.trace = @ \o <<"client">>])
    /\ UNCHANGED <<now, roles, config, mu, cfClient, cfClientTainted>>

\* no client, or a tainted one: the reader lock is given up for the writer lock
GetClientUpgrade(r) ==
    /\ req[r].pc = "client"
    /\ ~Usable
    /\ RUnlock(r)
    /\ Put(r, [req[r] EXCEPT !.pc = "c_lock"])
    /\ UNCHANGED <<now, roles, config, cfClient, cfClientTainted>>

GetClientLock(r) ==
    /\ req[r].pc = "c_lock"
    /\ mu.readers = {} /\ mu.writer = NoReq
    /\ mu' = [mu EXCEPT !.writer = r]
    /\ Put(r, [req[r] EXCEPT !.pc = "c_build"])
    /\ UNCHANGED <<now, roles, config, cfClient, cfClientTainted>>

\* under the writer lock: a client another request built meanwhile is kept,
\* otherwise a fresh one replaces the cached one and clears the taint, or
\* building it fails
GetClientRebuild(r) ==
    /\ req[r].pc = "c_build"
    /\ mu.writer = r
    /\ \/ /\ Usable
          /\ Put(r, [req[r] EXCEPT !.pc = "c_rlock"])
          /\ UNCHANGED <<cfClient, cfClientTainted>>
       \/ /\ ~Usable
          /\ cfClient' = "client"
          /\ cfClientTainted' = FALSE
          /\ Put(r, [req[r] EXCEPT !.pc = "c_rlock"])
       \/ /\ ~Usable
          /\ Put(r, [req[r] EXCEPT !.pc = "c_rlock", !.clientErr = TRUE])
          /\ UNCHANGED <<cfClient, cfClientTainted>>
    /\ mu' = [mu EXCEPT !.writer = NoReq]
    /\ UNCHANGED <<now, roles, config>>

\* the reader lock is taken back; lines 206-208 and 310-312 turn a failure
\* into a rejection
GetClientReturn(r) ==
    /\ req[r].pc = "c_rlock"
    /\ mu.writer = NoReq
    /\ IF req[r].clientErr
       THEN /\ Put(r, Done(req[r], Res("rejection", "client"), "client"))
            /\ UNCHANGED mu
       ELSE /\ RLock(r)
            /\ Put(r, [req[r] EXCEPT !.pc = "validate", !.trace = @ \o <<"client">>])
    /\ UNCHANGED <<now, roles, config, cfClient, cfClientTainted>>

\* LoginAuth with the application ID stored as instance_id
LoginAuthMut(roleName, cfCert, orgName, appName, spaceName, role) ==
    [nil |-> FALSE,
     InternalData |-> IfcMap([role |-> StrVal(roleName),
                              instance_id |-> StrVal(cfCert.AppID),
                              ip_address |-> StrVal(cfCert.IPAddress)]),
     DisplayName |-> cfCert.InstanceID,
     Alias |-> [Name |-> cfCert.AppID,
                Metadata |-> StrMap([org_id |-> cfCert.OrgID,
                                     app_id |-> cfCert.AppID,
                                     space_id |-> cfCert.SpaceID,
                                     org_name |-> orgName,
                                     app_name |-> appName,
                                     space_name |-> spaceName])],
     TTL |-> role.TokenTTL, MaxTTL |-> role.TokenMaxTTL, Period |-> role.TokenPeriod]

\* lines 229-250: the Auth of a successful login; role.PopulateTokenAuth
\* copies the role's lifetimes
LoginAuth(roleName, cfCert, orgName, appName, spaceName, role) ==
    [nil |-> FALSE,
     InternalData |-> IfcMap([role |-> StrVal(roleName),
                              instance_id |-> StrVal(cfCert.InstanceID),
                              ip_address |-> StrVal(cfCert.IPAddress)]),
     DisplayName |-> cfCert.InstanceID,
     Alias |-> [Name |-> cfCert.AppID,
                Metadata |-> StrMap([org_id |-> cfCert.OrgID,
                                     app_id |-> cfCert.AppID,
                                     space_id |-> cfCert.SpaceID,
                                     org_name |-> orgName,
                                     app_name |-> appName,
                                     space_name |-> spaceName])],
     TTL |-> role.TokenTTL, MaxTTL |-> role.TokenMaxTTL, Period |-> role.TokenPeriod]

\* lines 210-212: req.Connection is dereferenced for validate's argument
LoginValidate(r, D) ==
    /\ req[r].pc = "validate" /\ req[r].kind = "login"
    /\ LET rec == req[r] IN
       IF rec.in.conn.nil
       THEN Put(r, Done(rec, Res("panic", "nil pointer dereference"), "validate"))
       ELSE \E api \in D.apis :
              LET v == validate(api, rec.role, rec.cfCert, rec.in.conn.RemoteAddr)
                  called == [rec EXCEPT !.trace = @ \o v.calls,
                                        !.seen = Seen(api, v.calls),
                                        !.verr = [err |-> v.err, msg |-> v.msg]]
              IN  IF v.err
                  THEN Put(r, Done(called, Res("rejection", v.msg), "validate"))
                  ELSE Put(r, [called EXCEPT !.pc = "names"])
    /\ IF req'[r].pc = "done" THEN RUnlock(r) ELSE UNCHANGED mu
    /\ UNCHANGED <<now, roles, config, cfClient, cfClientTainted>>

\* LoginNames answering a failed name lookup with logical.ErrorResponse
LoginNamesMut(r, D) ==
    /\ req[r].pc = "names"
    /\ \E api \in D.apis :
         LET rec == req[r]
             org == getOrgName(api)
             app == getAppName(api)
             space == getSpaceName(api)
             looked == [org |-> ~org.err,
                        app |-> ~org.err /\ ~app.err,
                        space |-> ~org.err /\ ~app.err /\ ~space.err]
         IN  IF org.err \/ app.err \/ space.err
             THEN Put(r, Done([rec EXCEPT !.names = looked],
                              Res("rejection", "name lookup"), "names"))
             ELSE Put(r, Done([rec EXCEPT !.names = looked,
                                          !.trace = @ \o <<"names">>,
                                          !.auth = LoginAuth(rec.roleName, rec.cfCert,
                                                             org.name, app.name,
                                                             space.name, rec.role)],
                              Res("auth", ""), "auth"))
    /\ RUnlock(r)
    /\ UNCHANGED <<now, roles, config, cfClient, cfClientTainted>>

\* lines 214-255: the three name lookups, then the Auth
LoginNames(r, D) ==
    /\ req[r].pc = "names"
    /\ \E api \in D.apis :
         LET rec == req[r]
             org == getOrgName(api)
             app == getAppName(api)
             space == getSpaceName(api)
             looked == [org |-> ~org.err,
                        app |-> ~org.err /\ ~app.err,
                        space |-> ~org.err /\ ~app.err /\ ~space.err]
         IN  IF org.err \/ app.err \/ space.err
             THEN Put(r, Done([rec EXCEPT !.names = looked],
                              Res("error", "name lookup"), "names"))
             ELSE Put(r, Done([rec EXCEPT !.names = looked,
                                          !.trace = @ \o <<"names">>,
                                          !.auth = LoginAuth(rec.roleName, rec.cfCert,
                                                             org.name, app.name,
                                                             space.name, rec.role)],
                              Res("auth", ""), "auth"))
    /\ RUnlock(r)
    /\ UNCHANGED <<now, roles, config, cfClient, cfClientTainted>>

(* ---------------------------- pathLoginRenew --------------------------- *)

DropKey(m, key) == [k \in (DOMAIN m) \ {key} |-> m[k]]

GoodCert == NewCFCertificateFromx509(GoodBundle)
OtherCert == NewCFCertificateFromx509(OtherBundle)

IssuedAuth(roleName, cfCert) ==
    LoginAuth(roleName, cfCert, Str("org-name"), Str("app-name"), Str("space-name"),
              IF roleName \in DOMAIN StoredRoles THEN StoredRoles[roleName] ELSE WebRole)

\* auths as a login issued them (one for a role deleted since)
IssuedAuths ==
    {IssuedAuth(rn, c) : rn \in {Str("web"), Str("batch")}, c \in {GoodCert, OtherCert}}
    \cup {IssuedAuth(Str("ghost"), GoodCert)}

\* auths whose stored maps were damaged
DamagedAuths ==
    LET a == IssuedAuth(Str("batch"), GoodCert) IN
    {[a EXCEPT !.InternalData.m = DropKey(@, k)] : k \in {"role", "instance_id", "ip_address"}}
    \cup {[a EXCEPT !.Alias.Metadata.m = DropKey(@, k)] : k \in {"org_id", "space_id", "app_id"}}
    \cup {[a EXCEPT !.InternalData.m.instance_id = StrVal(EmptyStr)],
          [a EXCEPT !.InternalData.m.instance_id = IntVal],
          [a EXCEPT !.InternalData.m.ip_address = StrVal(Str("x"))],
          [a EXCEPT !.Alias.Metadata.m.org_id = EmptyStr]}

\* auths a login issued before the role's lifetimes were changed in storage
StaleAuths ==
    {[IssuedAuth(rn, GoodCert) EXCEPT !.TTL = 20, !.MaxTTL = 40, !.Period = 5] :
        rn \in {Str("web"), Str("batch")}}

RenewAuths == IssuedAuths \cup StaleAuths \cup DamagedAuths

RStep(res, stage, trace, role, cfCert) ==
    [res |-> res, stage |-> stage, trace |-> trace, role |-> role, cfCert |-> cfCert]

\* lines 260-307 of pathLoginRenew
RenewChecks(auth, cfgRes, roleErr, storage) ==
    IF cfgRes.err
    THEN RStep(Res("error", "storage"), "config", <<"rlock">>, NilRole, NilCert)
    ELSE IF cfgRes.config.nil
    THEN RStep(Res("error", "no configuration is available for reaching the CF API"),
               "config", <<"rlock">>, NilRole, NilCert)
    ELSE LET roleName == getOrErr("role", auth.InternalData) IN
    IF roleName.err
    THEN RStep(Res("error", roleName.msg), "role", <<"rlock", "config">>, NilRole, NilCert)
    ELSE IF roleErr
    THEN RStep(Res("error", "storage"), "getRole", <<"rlock", "config", "role">>,
               NilRole, NilCert)
    ELSE LET role == getRole(storage, roleName.v) IN
    IF role.nil
    THEN RStep(Res("error", "no matching role"), "getRole", <<"rlock", "config", "role">>,
               NilRole, NilCert)
    ELSE LET instanceID == getOrErr("instance_id", auth.InternalData)
             ipAddr == getOrErr("ip_address", auth.InternalData)
             orgID == getOrErr("org_id", auth.Alias.Metadata)
             spaceID == getOrErr("space_id", auth.Alias.Metadata)
             appID == getOrErr("app_id", auth.Alias.Metadata)
             got == <<"rlock", "config", "role", "getRole">>
         IN
    IF instanceID.err
    THEN RStep(Res("error", instanceID.msg), "instance_id", got, role, NilCert)
    ELSE IF ipAddr.err
    THEN RStep(Res("error", ipAddr.msg), "ip_address", got \o <<"instance_id">>, role, NilCert)
    ELSE IF orgID.err
    THEN RStep(Res("error", orgID.msg), "org_id",
               got \o <<"instance_id", "ip_address">>, role, NilCert)
    ELSE IF spaceID.err
    THEN RStep(Res("error", spaceID.msg), "space_id",
               got \o <<"instance_id", "ip_address", "org_id">>, role, NilCert)
    ELSE IF appID.err
    THEN RStep(Res("error", appID.msg), "app_id",
               got \o <<"instance_id", "ip_address", "org_id", "space_id">>, role, NilCert)
    ELSE RStep(NoResult, "continue",
               got \o <<"instance_id", "ip_address", "org_id", "space_id", "app_id">>,
               role,
               NewCFCertificate(instanceID.v, orgID.v, spaceID.v, appID.v, ipAddr.v))

\* lines 258-307: the reader lock is taken on entry
RenewBegin(r, D) ==
    /\ Free(r)
    /\ mu.writer = NoReq
    /\ \E auth \in D.auths, conn \in D.conns, cfgErr \in D.errs, roleErr \in D.errs :
         LET out == RenewChecks(auth, [err |-> cfgErr, config |-> config], roleErr, roles)
             base == [IdleReq EXCEPT !.kind = "renew", !.role = out.role,
                                     !.cfg = IF "config" \in SeqToSet(out.trace)
                                             THEN config ELSE NilConfig,
                                     !.trace = out.trace, !.cfCert = out.cfCert]
         IN  IF out.stage = "continue"
             THEN /\ RLock(r)
                  /\ Put(r, [base EXCEPT !.pc = "client",
                                         !.in = [auth |-> auth, conn |-> conn]])
             ELSE /\ Put(r, Done([base EXCEPT !.in = [auth |-> auth, conn |-> Unread]],
                                 out.res, out.stage))
                  /\ UNCHANGED mu
    /\ UNCHANGED <<now, roles, config, cfClient, cfClientTainted>>

\* RenewValidate handing req.Auth back as it came, without lines 321-323
RenewValidateMut(r, D) ==
    /\ req[r].pc = "validate" /\ req[r].kind = "renew"
    /\ LET rec == req[r] IN
       IF rec.in.conn.nil
       THEN Put(r, Done(rec, Res("panic", "nil pointer dereference"), "validate"))
       ELSE \E api \in D.apis :
              LET v == validate(api, rec.role, rec.cfCert, rec.in.conn.RemoteAddr)
                  called == [rec EXCEPT !.trace = @ \o v.calls,
                                        !.seen = Seen(api, v.calls),
                                        !.verr = [err |-> v.err, msg |-> v.msg]]
              IN  IF v.err
                  THEN Put(r, [called EXCEPT !.pc = "taint"])
                  ELSE Put(r, Done([called EXCEPT !.auth = rec.in.auth],
                                   Res("auth", ""), "auth"))
    /\ IF req'[r].pc = "done" THEN RUnlock(r) ELSE UNCHANGED mu
    /\ UNCHANGED <<now, roles, config, cfClient, cfClientTainted>>

\* lines 314 and 320-324: req.Connection is dereferenced for validate's
\* argument; on success the auth is handed back with the role's lifetimes
RenewValidate(r, D) ==
    /\ req[r].pc = "validate" /\ req[r].kind = "renew"
    /\ LET rec == req[r] IN
       IF rec.in.conn.nil
       THEN Put(r, Done(rec, Res("panic", "nil pointer dereference"), "validate"))
       ELSE \E api \in D.apis :
              LET v == validate(api, rec.role, rec.cfCert, rec.in.conn.RemoteAddr)
                  called == [rec EXCEPT !.trace = @ \o v.calls,
                                        !.seen = Seen(api, v.calls),
                                        !.verr = [err |-> v.err, msg |-> v.msg]]
              IN  IF v.err
                  THEN Put(r, [called EXCEPT !.pc = "taint"])
                  ELSE Put(r, Done([called EXCEPT
                                      !.auth = [rec.in.auth EXCEPT
                                                  !.TTL = rec.role.TokenTTL,
                                                  !.MaxTTL = rec.role.TokenMaxTTL,
                                                  !.Period = rec.role.TokenPeriod]],
                                   Res("auth", ""), "auth"))
    /\ IF req'[r].pc = "done" THEN RUnlock(r) ELSE UNCHANGED mu
    /\ UNCHANGED <<now, roles, config, cfClient, cfClientTainted>>

\* RenewTaint without the write of line 316
RenewTaintMut(r) ==
    /\ req[r].pc = "taint"
    /\ Put(r, [req[r] EXCEPT !.pc = "r_return"])
    /\ UNCHANGED <<now, roles, config, mu, cfClient, cfClientTainted>>

\* line 316, under the reader lock of line 258
RenewTaint(r) ==
    /\ req[r].pc = "taint"
    /\ cfClientTainted' = TRUE
    /\ Put(r, [req[r] EXCEPT !.pc = "r_return", !.trace = @ \o <<"taint">>])
    /\ UNCHANGED <<now, roles, config, mu, cfClient>>

\* line 317 and the deferred RUnlock
RenewReturn(r) ==
    /\ req[r].pc = "r_return"
    /\ Put(r, Done(req[r], Res("rejection", req[r].verr.msg), "validate"))
    /\ RUnlock(r)
    /\ UNCHANGED <<now, roles, config, cfClient, cfClientTainted>>

\* the response has gone to the caller
Finish(r) ==
    /\ req[r].pc = "done"
    /\ Put(r, IdleReq)
    /\ UNCHANGED <<now, roles, config, mu, cfClient, cfClientTainted>>

(* ---------------------------- specifications --------------------------- *)

Tick ==
    /\ now < MaxClock
    /\ now' = now + 1
    /\ UNCHANGED <<roles, config, mu, cfClient, cfClientTainted, req>>

\* what requests carry and what storage and the platform answer
Rich ==
    [roleNames |-> RoleNames, errs |-> BOOLEAN, conns |-> Conns, bundles |-> Bundles,
     raws |-> RawTimes, forgeries |-> TRUE, auths |-> RenewAuths, apis |-> ApiAnswers]

\* a few requests, for the runs with two requests in flight
Lean ==
    [roleNames |-> {Str("batch"), Str("ghost")}, errs |-> {FALSE},
     conns |-> {Conn(Str("5")), Conn(Str("2"))}, bundles |-> {GoodBundle},
     raws |-> {[format |-> "iso", sec |-> ClockStart]}, forgeries |-> FALSE,
     auths |-> {IssuedAuth(Str("batch"), GoodCert)},
     apis |-> {a \in ApiAnswers :
                 /\ a.app \in {ApiErr, [err |-> FALSE, Guid |-> Str("a1"), SpaceGuid |-> Str("s1"),
                                        Instances |-> 1, Name |-> Str("app-name")]}
                 /\ a.org = [err |-> FALSE, Guid |-> Str("o1"), Name |-> Str("org-name")]
                 /\ a.space = [err |-> FALSE, Guid |-> Str("s1"), OrganizationGuid |-> Str("o1"),
                               Name |-> Str("space-name")]}]

Handle(r, D) ==
    \/ LoginEntry(r)
    \/ LoginVerify(r, D)
    \/ GetClientCached(r)
    \/ GetClientUpgrade(r)
    \/ GetClientLock(r)
    \/ GetClientRebuild(r)
    \/ GetClientReturn(r)
    \/ LoginValidate(r, D)
    \/ LoginNames(r, D)
    \/ RenewBegin(r, D)
    \/ RenewValidate(r, D)
    \/ RenewTaint(r)
    \/ RenewReturn(r)
    \/ Finish(r)

InitWith(configs) ==
    /\ now = ClockStart
    /\ roles = StoredRoles
    /\ config \in configs
    /\ mu = [readers |-> {}, writer |-> NoReq]
    /\ cfClient = "nil"
    /\ cfClientTainted = FALSE
    /\ req = [r \in Reqs |-> IdleReq]

\* one request at a time, any request
Init == InitWith(Configs \cup {NilConfig})
Next == Tick \/ Handle("p", Rich)
Spec == Init /\ [][Next]_vars

\* two requests in flight
InitConc ==
    InitWith({[nil |-> FALSE, LoginMaxSecNotBefore |-> MaxTol, LoginMaxSecNotAfter |-> MaxTol,
               IdentityCACertificates |-> TrustedCAs]})
NextConc == Tick \/ \E r \in Reqs : Handle(r, Lean)
SpecConc == InitConc /\ [][NextConc]_vars

(* --------------------- the functions on their own ---------------------- *)

SeqsUpTo(S, n) == UNION {[1..k -> S] : k \in 0..n}

\* a call of fn on args that returned out
Call(fn, args, out) ==
    [IdleReq EXCEPT !.pc = "done", !.kind = fn, !.in = args, !.result = out]

\* identifiers of several characters: "a1" is a proper prefix of "a12"
LongIDs == {EmptyStr, <<"a", "1">>, <<"a", "1", "2">>, <<"b", "7">>}

\* remote addresses as text over a small alphabet, and the IPAddress text
\* of a certificate
AddrTexts == SeqsUpTo({"5", "6", "/", "x"}, MaxAddrLen)
CertIPTexts == {Str("5"), Str("6"), Str("x"), EmptyStr}

\* roles and certificates validate is applied to: the stored roles and one
\* bound to an instance and a space; the certificates of the two bundles,
\* one in another space and one whose IPAddress text is no address
PinnedRole ==
    [BatchRole EXCEPT !.BoundInstanceIDs = <<Str("i2")>>, !.BoundSpaceIDs = <<Str("s1")>>,
                      !.BoundOrgIDs = <<>>]
ValidateRoles == {WebRole, BatchRole, PinnedRole}
ValidateCerts ==
    {GoodCert, OtherCert, [OtherCert EXCEPT !.SpaceID = Str("s1")],
     [GoodCert EXCEPT !.IPAddress = Str("x")]}

\* the signing_time texts and the configurations LoginChecks is applied to
LoginRaws ==
    {[format |-> "empty", sec |-> 0], [format |-> "junk", sec |-> 0],
     [format |-> "bash", sec |-> ClockStart]}
    \cup {[format |-> "iso", sec |-> t] :
            t \in {ClockStart - MaxTol - 1, ClockStart, ClockStart + MaxTol + 1}}
LoginConfigs ==
    {NilConfig, [nil |-> FALSE, LoginMaxSecNotBefore |-> MaxTol, LoginMaxSecNotAfter |-> MaxTol,
                 IdentityCACertificates |-> TrustedCAs]}

ApplyMeetsBoundConstraints(r) ==
    /\ Free(r)
    /\ \E certValue \in LongIDs, constraints \in SeqsUpTo(LongIDs, MaxList) :
         Put(r, Call("meetsBoundConstraints",
                     [certValue |-> certValue, constraints |-> constraints],
                     meetsBoundConstraints(certValue, constraints)))
    /\ UNCHANGED <<now, roles, config, mu, cfClient, cfClientTainted>>

ApplyMatchesIPAddress(r) ==
    /\ Free(r)
    /\ \E remoteAddr \in AddrTexts, ipText \in CertIPTexts :
         Put(r, Call("matchesIPAddress",
                     [remoteAddr |-> remoteAddr, certIP |-> ParseIP(ipText)],
                     matchesIPAddress(remoteAddr, ParseIP(ipText))))
    /\ UNCHANGED <<now, roles, config, mu, cfClient, cfClientTainted>>

ApplyValidate(r) ==
    /\ Free(r)
    /\ \E api \in ApiAnswers, role \in ValidateRoles, cfCert \in ValidateCerts,
          remoteAddr \in RemoteAddrs :
         Put(r, Call("validate",
                     [api |-> api, role |-> role, cfCert |-> cfCert,
                      reqConnRemoteAddr |-> remoteAddr],
                     validate(api, role, cfCert, remoteAddr)))
    /\ UNCHANGED <<now, roles, config, mu, cfClient, cfClientTainted>>

\* a login request with everything it carries and what storage answers
ApplyLoginChecks(r) ==
    /\ Free(r)
    /\ \E roleName \in RoleNames, roleErr \in BOOLEAN, conn \in Conns, bundle \in Bundles,
          raw \in LoginRaws, cfgErr \in BOOLEAN, cfg \in LoginConfigs :
       \E sig \in SigsFor(parseTime(raw).t, roleName, bundle) :
         LET roleRes == [err |-> roleErr, role |-> getRole(roles, roleName)]
             cfgRes == [err |-> cfgErr, config |-> cfg]
         IN  Put(r, Call("LoginChecks",
                         [roleName |-> roleName, roleRes |-> roleRes, conn |-> conn,
                          signature |-> sig, cfInstanceCertContents |-> bundle,
                          signingTimeRaw |-> raw, cfgRes |-> cfgRes, timeReceived |-> now],
                         LoginChecks(roleName, roleRes, conn, sig, bundle, raw, cfgRes, now)))
    /\ UNCHANGED <<now, roles, config, mu, cfClient, cfClientTainted>>

\* one call of one function, on any of its inputs
InitFn == InitWith({NilConfig})
NextFn ==
    \/ ApplyMeetsBoundConstraints("p")
    \/ ApplyMatchesIPAddress("p")
    \/ ApplyValidate("p")
    \/ ApplyLoginChecks("p")
SpecFn == InitFn /\ [][NextFn]_vars

(* ------------------------------- claims -------------------------------- *)

Logins == {r \in Reqs : req[r].kind = "login"}
Renewals == {r \in Reqs : req[r].kind = "renew"}
Events(r) == SeqToSet(req[r].trace)
ApiEvents == {"app", "org", "space"}

\* C1: a login carries an Auth only if, in that request, the role exists,
\* the remote address is inside the role's bound CIDRs when it has any, the
\* signing time is inside the configured window, the signature verifies,
\* the chain validates against the configured CAs, validate returned no
\* error and the three name lookups succeeded; every other response
\* carries no Auth.
C1_AuthOnlyIfAllChecksHeld ==
    \A r \in Logins :
        LET rec == req[r] IN
        /\ (rec.auth # NilAuth) <=> (rec.result.kind = "auth")
        /\ rec.auth # NilAuth =>
            /\ rec.in.full
            /\ ~getRole(roles, rec.in.role).nil
            /\ rec.role = getRole(roles, rec.in.role)
            /\ Len(rec.role.TokenBoundCIDRs) > 0 =>
                  /\ ~rec.in.conn.nil
                  /\ RemoteAddrIsOk(rec.in.conn.RemoteAddr, rec.role.TokenBoundCIDRs)
            /\ ~rec.cfg.nil
            /\ rec.timeReceived - rec.cfg.LoginMaxSecNotBefore <= rec.signingTime
            /\ rec.signingTime <= rec.timeReceived + rec.cfg.LoginMaxSecNotAfter
            /\ ~Verify(rec.in.signature,
                       [SigningTime |-> rec.signingTime, Role |-> rec.in.role,
                        CFInstanceCertContents |-> rec.in.bundle]).err
            /\ ~Validate(rec.cfg.IdentityCACertificates, rec.in.bundle).err
            /\ rec.verr = [err |-> FALSE, msg |-> ""]
            /\ ~validate(rec.seen, rec.role, rec.cfCert, rec.in.conn.RemoteAddr).err
            /\ rec.names = [org |-> TRUE, app |-> TRUE, space |-> TRUE]

C1_Witness ==
    \E r \in Logins : req[r].result.kind = "auth" /\ req[r].in.role = Str("web")

\* C2: in a login, signature verification and chain validation have both
\* succeeded before the identity is derived, the platform client obtained
\* or a platform lookup made; a login whose signature or chain check
\* fails makes no platform lookup.
C2_CryptoBeforeIdentityAndPlatform ==
    \A r \in Logins :
        LET tr == req[r].trace IN
        /\ \A i \in 1..Len(tr) :
              tr[i] \in {"derive", "client", "names"} \cup ApiEvents =>
                 /\ \E j \in 1..(i - 1) : tr[j] = "verify"
                 /\ \E j \in 1..(i - 1) : tr[j] = "chain"
        /\ req[r].stage \in {"verify", "chain"} =>
              /\ Events(r) \cap (ApiEvents \cup {"client", "names"}) = {}
              /\ req[r].seen = Unread

C2_Witness ==
    \E r \in Logins : {"verify", "chain", "derive", "client", "app"} \subseteq Events(r)

\* C3: a login that reaches the window check passes it if and only if
\* timeReceived - before <= signingTime <= timeReceived + after, both ends
\* included, where timeReceived is the clock value taken on entry.
C3_WindowInclusive ==
    \A r \in Logins :
        LET rec == req[r] IN
        "config" \in Events(r) =>
            ("window" \in Events(r) <=>
                /\ rec.timeReceived - rec.cfg.LoginMaxSecNotBefore <= rec.signingTime
                /\ rec.signingTime <= rec.timeReceived + rec.cfg.LoginMaxSecNotAfter)

\* the older boundary is accepted, after the clock has moved on
C3_Witness ==
    \E r \in Logins :
        /\ "window" \in Events(r)
        /\ req[r].cfg.LoginMaxSecNotBefore > 0
        /\ req[r].signingTime = req[r].timeReceived - req[r].cfg.LoginMaxSecNotBefore
        /\ now # req[r].timeReceived

\* C4: a login against a role with bound CIDRs whose request has no
\* connection, or a remote address outside every bound CIDR, ends in
\* permission denied, with no Auth.
C4_CidrPermissionDenied ==
    \A r \in Logins :
        LET rec == req[r] IN
        ("role" \in Events(r) /\ Len(rec.role.TokenBoundCIDRs) > 0
            /\ (rec.in.conn.nil
                \/ ~RemoteAddrIsOk(rec.in.conn.RemoteAddr, rec.role.TokenBoundCIDRs)))
        => /\ rec.pc = "done"
           /\ rec.result = Res("denied", "permission denied")
           /\ rec.auth = NilAuth

C4_Witness ==
    \E r \in Logins :
        /\ req[r].result.kind = "denied"
        /\ ~req[r].in.conn.nil
        /\ req[r].in.conn.RemoteAddr = Str("2")

\* C5: a login naming a role that storage does not hold is answered with
\* a rejection (logical.ErrorResponse) saying "no matching role", never
\* with an Auth.
C5_MissingRoleIsRejection ==
    \A r \in Logins :
        LET rec == req[r] IN
        (rec.pc = "done" /\ rec.stage = "getRole" /\ rec.roleName # EmptyStr
            /\ rec.result.msg = "no matching role" /\ getRole(roles, rec.roleName).nil)
        => /\ rec.result = Res("rejection", "no matching role")
           /\ rec.auth = NilAuth

\* C6: when validate returns an error in a renewal, the taint flag is true
\* from the write to the return, the renewal returns a rejection and no
\* Auth with new lifetimes.
C6_RenewFailureTaints ==
    \A r \in Renewals :
        LET rec == req[r] IN
        /\ rec.pc = "r_return" => cfClientTainted
        /\ (rec.pc = "done" /\ rec.verr # Unread /\ rec.verr.err) =>
              /\ rec.taintAtReturn
              /\ rec.result.kind = "rejection"
              /\ rec.auth = NilAuth

C6_Witness ==
    \E r \in Renewals :
        /\ req[r].pc = "done" /\ req[r].verr # Unread /\ req[r].verr.err
        /\ \E q \in Reqs \ {r} : req[q].pc \notin {"idle", "done"}

\* C7: when validate returns an error in a login, the client cache is
\* tainted by the end of that request.
C7_LoginFailureTaints ==
    \A r \in Logins :
        (req[r].pc = "done" /\ req[r].verr # Unread /\ req[r].verr.err)
        => req[r].taintAtReturn

\* C8: access to the cached client and its taint flag is serialized by
\* b.mu: a request about to write either holds the writer lock, so no
\* other request holds the lock (and can read or write them) meanwhile.
C8_WritesAreExclusive ==
    \A r \in Reqs :
        req[r].pc \in {"c_build", "taint"} =>
            /\ mu.writer = r
            /\ mu.readers \subseteq {r}
            /\ \A q \in Reqs \ {r} : req[q].pc \notin {"client", "validate", "names", "taint", "r_return"}

\* C9: a renewal whose stored maps lack one of the six fields, or hold an
\* empty instance_id, ends in a hard error: no client is obtained, no
\* platform lookup made, the taint flag not written, no Auth returned.
MissingField(auth) ==
    \/ \E k \in {"role", "instance_id", "ip_address"} : k \notin DOMAIN auth.InternalData.m
    \/ \E k \in {"org_id", "space_id", "app_id"} : k \notin DOMAIN auth.Alias.Metadata.m
    \/ /\ "instance_id" \in DOMAIN auth.InternalData.m
       /\ auth.InternalData.m["instance_id"] = StrVal(EmptyStr)

C9_MissingFieldHardError ==
    \A r \in Renewals :
        LET rec == req[r] IN
        MissingField(rec.in.auth) =>
            /\ rec.pc = "done"
            /\ rec.result.kind = "error"
            /\ Events(r) \cap (ApiEvents \cup {"client", "taint"}) = {}
            /\ rec.seen = Unread
            /\ rec.auth = NilAuth

C9_Witness ==
    \E r \in Renewals :
        /\ "app_id" \notin DOMAIN req[r].in.auth.Alias.Metadata.m
        /\ req[r].stage = "app_id"
        /\ req[r].result.kind = "error"

\* C10: the Auth of a successful login, put through the renewal's field
\* extraction, yields all six fields and rebuilds the role name and the
\* certificate identity the login passed to validate.
C10_RoundTrip ==
    \A r \in Logins :
        LET rec == req[r]
            a == rec.auth
        IN  a # NilAuth =>
            LET roleName == getOrErr("role", a.InternalData)
                instanceID == getOrErr("instance_id", a.InternalData)
                ipAddr == getOrErr("ip_address", a.InternalData)
                orgID == getOrErr("org_id", a.Alias.Metadata)
                spaceID == getOrErr("space_id", a.Alias.Metadata)
                appID == getOrErr("app_id", a.Alias.Metadata)
            IN  /\ ~roleName.err /\ ~instanceID.err /\ ~ipAddr.err
                /\ ~orgID.err /\ ~spaceID.err /\ ~appID.err
                /\ roleName.v = rec.roleName
                /\ NewCFCertificate(instanceID.v, orgID.v, spaceID.v, appID.v, ipAddr.v)
                      = rec.cfCert

C10_Witness ==
    \E r \in Logins : req[r].auth # NilAuth /\ req[r].cfCert = OtherCert

\* C11: a successful renewal hands back the auth it was given with TTL,
\* MaxTTL and Period equal to what storage holds for the auth's role at
\* the renewal, whatever lifetimes the auth came with; internal data,
\* display name and alias (name and metadata) are as they came.
C11_RenewTakesRoleLifetimes ==
    \A r \in Renewals :
        LET rec == req[r]
            given == rec.in.auth
        IN  /\ (rec.auth # NilAuth) <=> (rec.result.kind = "auth")
            /\ rec.auth # NilAuth =>
                 LET stored == roles[given.InternalData.m["role"].s] IN
                 /\ rec.auth.TTL = stored.TokenTTL
                 /\ rec.auth.MaxTTL = stored.TokenMaxTTL
                 /\ rec.auth.Period = stored.TokenPeriod
                 /\ rec.auth.InternalData = given.InternalData
                 /\ rec.auth.DisplayName = given.DisplayName
                 /\ rec.auth.Alias = given.Alias

\* an auth issued under other lifetimes is renewed
C11_Witness ==
    \E r \in Renewals :
        /\ req[r].result.kind = "auth"
        /\ req[r].in.auth \in StaleAuths
        /\ req[r].in.auth.TTL # req[r].auth.TTL
        /\ req[r].in.auth.Period # req[r].auth.Period

\* C12: in a login past signature and chain validation, an error from
\* validate ends the request in a rejection (logical.ErrorResponse), and a
\* failure of the organization, application or space name lookup that
\* follows ends it in a hard error; neither response carries an Auth.
C12_ValidateSoftNamesHard ==
    \A r \in Logins :
        LET rec == req[r] IN
        /\ (rec.verr # Unread /\ rec.verr.err) =>
              /\ {"verify", "chain"} \subseteq Events(r)
              /\ rec.pc = "done"
              /\ rec.result = Res("rejection", rec.verr.msg)
              /\ rec.auth = NilAuth
        /\ (rec.names # Unread /\ rec.names # [org |-> TRUE, app |-> TRUE, space |-> TRUE]) =>
              /\ {"verify", "chain"} \subseteq Events(r)
              /\ rec.verr = [err |-> FALSE, msg |-> ""]
              /\ rec.pc = "done"
              /\ rec.result.kind = "error"
              /\ rec.auth = NilAuth

\* validate passed, the organization name was fetched, the application
\* name was not
C12_Witness ==
    \E r \in Logins :
        /\ req[r].names # Unread
        /\ req[r].names.org /\ ~req[r].names.app
        /\ req[r].result.kind = "error"

\* the calls of fn that have returned
Returned(fn) == {r \in Reqs : req[r].kind = fn /\ req[r].pc = "done"}

\* C13: meetsBoundConstraints is true for every value when the bound list
\* is empty, and otherwise exactly when the value equals an element of the
\* list: a value that is only a prefix of an element does not match.
C13_BoundListExactMembership ==
    \A r \in Returned("meetsBoundConstraints") :
        LET v == req[r].in.certValue
            c == req[r].in.constraints
        IN  /\ c = <<>> => req[r].result = TRUE
            /\ c # <<>> => (req[r].result <=> \E i \in DOMAIN c : c[i] = v)

\* "a1" against the list ["a12"] is refused
C13_Witness ==
    \E r \in Returned("meetsBoundConstraints") :
        /\ req[r].in.certValue = <<"a", "1">>
        /\ req[r].in.constraints = << <<"a", "1", "2">> >>
        /\ req[r].result = FALSE

\* what C14 says of an Auth and the certificate identity it was issued for
NamedAfter(auth, appID, instanceID) ==
    /\ auth.Alias.Name = appID
    /\ auth.Alias.Metadata.m["app_id"] = appID
    /\ auth.DisplayName = instanceID
    /\ auth.InternalData.m["instance_id"] = StrVal(instanceID)

\* C14: the Auth of a login has the alias name and the alias metadata
\* app_id equal to the application ID of the verified certificate, and the
\* display name and the internal instance_id equal to its instance ID; the
\* Auth a successful renewal of such an Auth returns has the same.
C14_AliasIsAppDisplayIsInstance ==
    /\ \A r \in Logins :
          req[r].auth # NilAuth =>
             NamedAfter(req[r].auth, req[r].in.bundle.app, req[r].in.bundle.cn)
    /\ \A r \in Renewals :
          req[r].auth # NilAuth =>
             \A b \in {GoodBundle, OtherBundle}, rn \in RoleNames :
                LET issued == IssuedAuth(rn, NewCFCertificateFromx509(b)) IN
                (req[r].in.auth.InternalData = issued.InternalData
                    /\ req[r].in.auth.Alias = issued.Alias)
                => NamedAfter(req[r].auth, b.app, b.cn)

\* the Auth issued for the second certificate is renewed
C14_Witness ==
    \E r \in Renewals :
        /\ req[r].result.kind = "auth"
        /\ req[r].in.auth \in IssuedAuths
        /\ req[r].auth.Alias.Name = OtherBundle.app
        /\ req[r].auth.DisplayName = OtherBundle.cn

Meets(certValue, constraints) ==
    constraints = <<>> \/ \E i \in DOMAIN constraints : constraints[i] = certValue

\* C15: validate returns no error exactly when IP matching is disabled or
\* the remote address matches the certificate's IP; the instance,
\* application, organization and space IDs each meet the role's bound
\* list; the application lookup succeeds with the certificate's
\* application ID and space ID and more than zero instances; the
\* organization lookup succeeds with the certificate's organization ID;
\* and the space lookup succeeds with the certificate's space ID and the
\* certificate's organization as parent.
C15_ValidateIffAllConditions ==
    \A r \in Returned("validate") :
        LET api == req[r].in.api
            role == req[r].in.role
            c == req[r].in.cfCert
            addr == req[r].in.reqConnRemoteAddr
        IN  ~req[r].result.err <=>
              /\ role.DisableIPMatching \/ matchesIPAddress(addr, ParseIP(c.IPAddress))
              /\ Meets(c.InstanceID, role.BoundInstanceIDs)
              /\ Meets(c.AppID, role.BoundAppIDs)
              /\ Meets(c.OrgID, role.BoundOrgIDs)
              /\ Meets(c.SpaceID, role.BoundSpaceIDs)
              /\ ~api.app.err /\ api.app.Guid = c.AppID /\ api.app.SpaceGuid = c.SpaceID
              /\ ~api.app.err /\ api.app.Instances > 0
              /\ ~api.org.err /\ api.org.Guid = c.OrgID
              /\ ~api.space.err /\ api.space.Guid = c.SpaceID
              /\ ~api.space.err /\ api.space.OrganizationGuid = c.OrgID

\* everything else in order, the application has no instance
C15_Witness ==
    \E r \in Returned("validate") :
        LET api == req[r].in.api
            c == req[r].in.cfCert
        IN  /\ req[r].in.role = PinnedRole
            /\ req[r].result.err
            /\ req[r].result.calls = <<"app">>
            /\ ~api.app.err /\ api.app.Guid = c.AppID /\ api.app.SpaceGuid = c.SpaceID
            /\ api.app.Instances = 0
            /\ ~api.org.err /\ api.org.Guid = c.OrgID
            /\ ~api.space.err /\ api.space.Guid = c.SpaceID
            /\ api.space.OrganizationGuid = c.OrgID

\* C17: validate makes no platform lookup unless every local check has
\* passed: the IP match when the role has it enabled, and the four
\* bound-list checks.
C17_NoLookupBeforeLocalChecks ==
    \A r \in Returned("validate") :
        LET role == req[r].in.role
            c == req[r].in.cfCert
        IN  req[r].result.calls # <<>> =>
              /\ role.DisableIPMatching
                    \/ matchesIPAddress(req[r].in.reqConnRemoteAddr, ParseIP(c.IPAddress))
              /\ Meets(c.InstanceID, role.BoundInstanceIDs)
              /\ Meets(c.AppID, role.BoundAppIDs)
              /\ Meets(c.OrgID, role.BoundOrgIDs)
              /\ Meets(c.SpaceID, role.BoundSpaceIDs)

\* the last local check fails on a platform that would have answered:
\* nothing is asked
C17_Witness ==
    \E r \in Returned("validate") :
        /\ req[r].result.msg = "space ID doesn't match role constraints"
        /\ req[r].result.calls = <<>>
        /\ ~req[r].in.api.app.err

\* the checks of a login in the order C16 gives, each with the condition
\* under which it fails on the request a
CheckOrder ==
    <<"role", "getRole", "cidr", "signature", "cf_instance_cert", "signing_time", "parse",
      "config", "window", "extract", "verify", "chain">>

CheckFails(a) ==
    LET role == a.roleRes.role
        cfg == a.cfgRes.config
        bundle == a.cfInstanceCertContents
        sig == a.signature
        raw == a.signingTimeRaw
        parses == raw.format \in {"iso", "bash"}
    IN  [role |-> a.roleName = EmptyStr,
         getRole |-> a.roleRes.err \/ role.nil,
         cidr |-> /\ ~role.nil
                  /\ role.TokenBoundCIDRs # <<>>
                  /\ \/ a.conn.nil
                     \/ ~RemoteAddrIsOk(a.conn.RemoteAddr, role.TokenBoundCIDRs),
         signature |-> sig.empty,
         cf_instance_cert |-> bundle.empty,
         signing_time |-> raw.format = "empty",
         parse |-> ~parses,
         config |-> a.cfgRes.err \/ cfg.nil,
         window |-> /\ parses /\ ~cfg.nil
                    /\ \/ raw.sec < a.timeReceived - cfg.LoginMaxSecNotBefore
                       \/ raw.sec > a.timeReceived + cfg.LoginMaxSecNotAfter,
         extract |-> ~bundle.empty /\ ~bundle.pem_ok,
         verify |-> /\ ~sig.empty /\ ~bundle.empty
                    /\ ~(/\ sig.key = bundle.key /\ sig.time = raw.sec
                          /\ sig.role = a.roleName /\ sig.cert = bundle),
         chain |-> /\ ~bundle.empty /\ ~cfg.nil
                   /\ bundle.issuer \notin cfg.IdentityCACertificates]

\* C16: the stage at which a login ends is the first check, in the order
\* empty role, role lookup, bound CIDRs, empty signature, empty
\* cf_instance_cert, empty signing_time, signing-time parse, configuration
\* present, time window, certificate extraction, signature verification,
\* chain validation, that fails on the request, and the login passes them
\* all when none fails; a request from outside the role's bound CIDRs is
\* answered permission denied whatever its three fields hold.
C16_FirstFailingCheckDecides ==
    \A r \in Returned("LoginChecks") :
        LET a == req[r].in
            out == req[r].result
            fails == CheckFails(a)
            failing == {i \in DOMAIN CheckOrder : fails[CheckOrder[i]]}
        IN  /\ failing # {} =>
                 /\ out.stage = CheckOrder[CHOOSE i \in failing : \A j \in failing : i <= j]
                 /\ out.res.kind \in {"rejection", "error", "denied"}
            /\ failing = {} => out.stage \in {"derive", "continue"}
            /\ (~fails.role /\ ~fails.getRole /\ fails.cidr) =>
                 out.res = Res("denied", "permission denied")

\* outside the bound CIDRs with no signature, no certificate and a signing
\* time that does not parse: permission denied
C16_Witness ==
    \E r \in Returned("LoginChecks") :
        LET a == req[r].in IN
        /\ req[r].result.res.kind = "denied"
        /\ ~a.conn.nil /\ a.conn.RemoteAddr = Str("2")
        /\ a.signature.empty /\ a.cfInstanceCertContents.empty
        /\ a.signingTimeRaw.format = "junk"

\* the text of a remote address up to its first "/", or all of it
BeforeSlash(a, p) ==
    \E k \in 0..Len(a) :
        /\ p = SubSeq(a, 1, k)
        /\ \A i \in 1..k : a[i] # "/"
        /\ k = Len(a) \/ a[k + 1] = "/"

\* C18: matchesIPAddress drops what follows the first "/" of the remote
\* address and answers whether what is left, parsed as an address, equals
\* the certificate's IP (text that is no address parses to the nil
\* address): "5/6" matches 5, "5" does not match 6.  For a role with IP
\* matching disabled, validate returns the same for every remote address.
C18_IPCheckStripsSubnet ==
    /\ \A r \in Returned("matchesIPAddress") :
          LET a == req[r].in.remoteAddr IN
          req[r].result <=>
             \E p \in AddrTexts : BeforeSlash(a, p) /\ ParseIP(p) = req[r].in.certIP
    /\ \A r \in Returned("validate") :
          req[r].in.role.DisableIPMatching =>
             \A other \in RemoteAddrs \cup {EmptyStr} :
                validate(req[r].in.api, req[r].in.role, req[r].in.cfCert, other)
                   = req[r].result

\* an address with a subnet suffix matches the certificate's IP
C18_Witness ==
    \E r \in Returned("matchesIPAddress") :
        /\ req[r].in.remoteAddr = <<"5", "/", "6">>
        /\ req[r].in.certIP = ParseIP(Str("5"))
        /\ req[r].result = TRUE

\* C19: a handler at the call of validate, where req.Connection.RemoteAddr
\* is read, has connection metadata: in a login whatever the role's bound
\* CIDRs, and in every renewal.
C19_ConnectionPresentAtValidate ==
    \A r \in Reqs : req[r].pc = "validate" => ~req[r].in.conn.nil

\* C20: matchesIPAddress answers true only when the remote address and
\* the certificate's IP both parse to an address and the two are equal.
C20_IPCheckNeedsTwoAddresses ==
    \A r \in Returned("matchesIPAddress") :
        req[r].result = TRUE =>
           /\ ~req[r].in.certIP.nil
           /\ \E p \in AddrTexts :
                 /\ BeforeSlash(req[r].in.remoteAddr, p)
                 /\ ~ParseIP(p).nil
                 /\ ParseIP(p) = req[r].in.certIP

====
